---- MODULE Spec2Model ----
(***************************************************************************)
(* GVDB -> NanoVDB exporter (source/gNanoVDB/gvdb_export_nanovdb.cpp).      *)
(*                                                                         *)
(* The model follows ExportToNanoVDB step by step: argument and parameter  *)
(* validation, the layout computation (ComputeTypeSizes and the exclusive  *)
(* prefix sum), the allocation, the three kernel launches on the default   *)
(* stream, the host-side grid and tree headers, the synchronising copy of  *)
(* the level-2 nodes, ProcessGridExtents (root header, root tiles, sort)   *)
(* and the final write-back.  RenderNanoVDB is followed the same way:      *)
(* image allocation, kernel launch, copy back, release.                    *)
(*                                                                         *)
(* Conventions.                                                            *)
(*  - Value types are the type-table indices of TypeTableIndex: 0 = float, *)
(*    1 = Vec3f, 2 = int; TUnsupported stands for every other channel type.*)
(*  - A value is a tuple with one entry per component (1 or 3).            *)
(*  - F32 values are represented by integers through an order-preserving   *)
(*    map (only the ordering enters the min/max folds): 0.0 -> 0,          *)
(*    FLT_MIN (smallest positive normal) -> 1, 1.0 -> FloatOne,            *)
(*    FLT_MAX -> FltMax.                                                   *)
(*  - 64-bit unsigned integers are triples <<hi, mid, lo>> of limbs:       *)
(*    lo = bits 0..20, mid = bits 21..41, hi = bits 42..63.                *)
(*  - NDEBUG is the build configuration: assert() is compiled out when it  *)
(*    is TRUE and aborts the process when it is FALSE and the condition    *)
(*    fails.                                                               *)
(*  - The device runs the kernels of the default stream in launch order;   *)
(*    a kernel is one start and one completion.                            *)
(*  - writes records the byte ranges written to the device buffer ("gpu")  *)
(*    and to the host staging buffer ("cpu"), accessed the caller's        *)
(*    objects a call has touched.                                          *)
(*  - The caller may call again in the same process (the statics and the   *)
(*    heap persist) and may ask for cancellation during a call.            *)
(*  - width and height are uint; the sides of the model stay far below     *)
(*    2^32 - 8, where width + blockSize - 1 would wrap.                    *)
(***************************************************************************)
EXTENDS Integers, Sequences, FiniteSets, TLC

(***************************************************************************)
(* Bounds of the model.                                                    *)
(***************************************************************************)
MaxLog2Dim == 9
MaxCount == 2
MaxNode2 == 2
MaxSide == 12

(***************************************************************************)
(* Program constants.                                                      *)
(***************************************************************************)
TREE_DEPTH == 3
R_COUNT == 6
IntMax == 2147483647
IntMin == -2147483647 - 1
FltMax == 1073741824
FltMin == 1
FloatOne == 1000

TFloat == 0
TFloat3 == 1
TInt == 2
TUnsupported == 3
SupportedTypes == {TFloat, TFloat3, TInt}

Pow2(n) == 2 ^ n

(***************************************************************************)
(* Integer helpers with the widths of the C++ types.                       *)
(***************************************************************************)
RECURSIVE BitOr(_, _)
BitOr(a, b) ==
    IF a = 0 THEN b
    ELSE IF b = 0 THEN a
    ELSE (IF a % 2 = 1 \/ b % 2 = 1 THEN 1 ELSE 0) + 2 * BitOr(a \div 2, b \div 2)

\* int >> n on a two's-complement int: arithmetic shift
Sra(x, n) == x \div Pow2(n)

\* uint64_t(v) for an int v: sign extension to 64 bits
U64FromInt(v) ==
    << IF v < 0 THEN Pow2(22) - 1 ELSE 0,
       (v \div Pow2(21)) % Pow2(21),
       v % Pow2(21) >>

\* uint64_t << 21
U64Shl21(u) == << u[2] + (u[1] % 2) * Pow2(21), u[3], 0 >>

\* uint64_t << 42
U64Shl42(u) == << u[3] + (u[2] % 2) * Pow2(21), 0, 0 >>

U64Or(a, b) == << BitOr(a[1], b[1]), BitOr(a[2], b[2]), BitOr(a[3], b[3]) >>

U64Less(a, b) ==
    \/ a[1] < b[1]
    \/ a[1] = b[1] /\ a[2] < b[2]
    \/ a[1] = b[1] /\ a[2] = b[2] /\ a[3] < b[3]

(***************************************************************************)
(* Type registry.                                                          *)
(***************************************************************************)
Components(t) == IF t = TFloat3 THEN 3 ELSE 1

ValueWidth(t) == IF t = TFloat3 THEN 12 ELSE 4

TypeTableIndex(t) == IF t \in SupportedTypes THEN t ELSE 0

\* ExportToNanoVDB_MaximumValue<T>()
MaximumValue(t) ==
    IF t = TFloat THEN << FltMax >>
    ELSE IF t = TInt THEN << IntMax >>
    ELSE << FltMax, FltMax, FltMax >>

MinimumValueLowest(t) ==
    IF t = TFloat THEN << -FltMax >>
    ELSE IF t = TInt THEN << IntMin >>
    ELSE << -FltMax, -FltMax, -FltMax >>

\* ExportToNanoVDB_MinimumValue<T>(): std::numeric_limits<T>::min() is the
\* smallest positive normal value for float and INT_MIN for int; the Vec3f
\* specialisation returns -FLT_MAX in every component.
MinimumValue(t) ==
    IF t = TFloat THEN << FltMin >>
    ELSE IF t = TInt THEN << IntMin >>
    ELSE << -FltMax, -FltMax, -FltMax >>

Min2(a, b) == IF b < a THEN b ELSE a
Max2(a, b) == IF a < b THEN b ELSE a

\* ExportToNanoVDB_Min / ExportToNanoVDB_Max: pairwise, componentwise
ValueMin(a, b) == [c \in DOMAIN a |-> Min2(a[c], b[c])]
ValueMax(a, b) == [c \in DOMAIN a |-> Max2(a[c], b[c])]

(***************************************************************************)
(* Sizes of the NanoVDB types (sizeof of the types of the NanoVDB header). *)
(***************************************************************************)
RoundUp32(n) == ((n + 31) \div 32) * 32

SizeofGridData == 672
SizeofTreeData == 64
SizeofRootData(t) == RoundUp32(24 + 8 + 4 + 3 * ValueWidth(t))
SizeofRootTile(t) == RoundUp32(8 + 4 + 4 + ValueWidth(t))

MaskBytes(ld) == IF Pow2(3 * ld) < 64 THEN 8 ELSE Pow2(3 * ld) \div 8

SizeofInternalNode(t, ld) ==
    RoundUp32(24 + 4 + 4 + 2 * MaskBytes(ld) + 2 * ValueWidth(t)
              + Pow2(3 * ld) * (IF t = TFloat3 THEN 16 ELSE 8))

SizeofLeafNode(t, ld) ==
    RoundUp32(24 + 4 + 4 + MaskBytes(ld) + 2 * ValueWidth(t)
              + Pow2(3 * ld) * ValueWidth(t))

\* static const size_t nodeSizes[3][6], leafSizes[3][6]: column c holds
\* the size for log2dim c + 2
TableColumns == 0 .. 5
nodeSizes == [t \in SupportedTypes |-> [c \in TableColumns |-> SizeofInternalNode(t, c + 2)]]
leafSizes == [t \in SupportedTypes |-> [c \in TableColumns |-> SizeofLeafNode(t, c + 2)]]

\* DataTypeSizeLookup: the range check of the function; when it fails the
\* assertion fires (debug build) or 0 is returned (release build)
LookupInRange(log2Dim) == ~(log2Dim < 2 \/ log2Dim > 7)

DataTypeSizeLookup(sizes, t, log2Dim) ==
    IF ~LookupInRange(log2Dim) THEN 0
    ELSE sizes[TypeTableIndex(t)][log2Dim - 2]

\* ComputeTypeSizes
ComputeTypeSizes(t, brickLog2Dim, node1Log2Dim, node2Log2Dim) ==
    [ grid     |-> SizeofGridData,
      tree     |-> SizeofTreeData,
      root     |-> SizeofRootData(t),
      rootTile |-> SizeofRootTile(t),
      node2    |-> DataTypeSizeLookup(nodeSizes, t, node2Log2Dim),
      node1    |-> DataTypeSizeLookup(nodeSizes, t, node1Log2Dim),
      leaf     |-> DataTypeSizeLookup(leafSizes, t, brickLog2Dim) ]

\* regions R_GRID .. R_LEAF are numbered 1 .. 6 here
RegionSizes(ts, n2, n1, nl) ==
    << ts.grid, ts.tree, ts.root + ts.rootTile * n2,
       n2 * ts.node2, n1 * ts.node1, nl * ts.leaf >>

\* exclusive prefix sum of ExportToNanoVDB; entry i + 1 is dataOffsetsBytes[i]
RECURSIVE PrefixSumBad(_, _)
PrefixSumBad(sizes, i) ==
    IF i = 0 THEN << 0 >>
    ELSE LET p == PrefixSumBad(sizes, i - 1)
         IN  Append(p, p[i] + (IF i = R_COUNT THEN 0 ELSE sizes[i]))

RECURSIVE PrefixSum(_, _)
PrefixSum(sizes, i) ==
    IF i = 0 THEN << 0 >>
    ELSE LET p == PrefixSum(sizes, i - 1)
         IN  Append(p, p[i] + sizes[i])

(***************************************************************************)
(* Root tiles.                                                             *)
(***************************************************************************)
\* tile.key of ProcessGridExtents: each int is shifted arithmetically and
\* then converted to uint64_t
TileKey(ijk, totalLog2Dim) ==
    U64Or(U64Or(U64FromInt(Sra(ijk[3], totalLog2Dim)),
                U64Shl21(U64FromInt(Sra(ijk[2], totalLog2Dim)))),
          U64Shl42(U64FromInt(Sra(ijk[1], totalLog2Dim))))

\* a.key < b.key, the comparison handed to std::sort
TileLess(a, b) == U64Less(a.key, b.key)

IsSorted(s) == \A a, b \in DOMAIN s : a < b => ~TileLess(s[b], s[a])

\* the results std::sort may leave: the sorted rearrangements of the tiles
\* (the order of tiles with equal keys is unspecified)
SortTiles(tiles) ==
    { s \in { [i \in DOMAIN tiles |-> tiles[p[i]]] : p \in Permutations(DOMAIN tiles) }
        : IsSorted(s) }

\* nanovdb::CoordBBox(): the empty box
EmptyBBox == [min |-> << IntMax, IntMax, IntMax >>, max |-> << IntMin, IntMin, IntMin >>]

\* the per-axis update of indexAABB in the tile loop
ExpandBBox(box, aabb) ==
    [ min |-> [c \in 1 .. 3 |-> Min2(box.min[c], aabb.min[c])],
      max |-> [c \in 1 .. 3 |-> Max2(box.max[c], aabb.max[c])] ]

\* gvdb.getVoxCnt(0): voxels of one brick
VoxCnt(brickLog2Dim) == Pow2(3 * brickLog2Dim)

(***************************************************************************)
(* Source trees.                                                           *)
(***************************************************************************)
TotalLog2Dim(ld) == ld[1] + ld[2] + ld[3]

UnitValue(t) == [c \in 1 .. Components(t) |-> IF t = TInt THEN 1 ELSE FloatOne]

\* a level-2 node as the level-2 filler leaves it: origin, bounding box of
\* its content (one brick, inset bricks away from the origin on each axis),
\* value range
Node2(origin, inset, ld, vmin, vmax) ==
    LET lo == [c \in 1 .. 3 |-> origin[c] + inset * Pow2(ld[1])]
    IN  [ origin |-> origin,
          aabb   |-> [min |-> lo, max |-> [c \in 1 .. 3 |-> lo[c] + Pow2(ld[1]) - 1]],
          vmin   |-> vmin,
          vmax   |-> vmax ]

\* extent of a level-2 node; a tree whose log2dims the export rejects is
\* never read, its nodes are laid out with the largest legal extent
Extent(ld) == Pow2(IF TotalLog2Dim(ld) > 24 THEN 24 ELSE TotalLog2Dim(ld))

\* n nodes in a row along the first axis
CanonicalNodes(t, n, ld) ==
    [i \in 1 .. n |->
        Node2(<< (i - 1) * Extent(ld), 0, 0 >>, 0, ld, UnitValue(t), UnitValue(t))]

\* log2dims <<leaf, level 1, level 2>> of the trees with varied content
TreeLog2Dims == { << 3, 3, 3 >>, << 3, 4, 5 >>, << 5, 3, 3 >>, << 3, 4, 8 >> }

\* origins of level-2 nodes, in units of the level-2 node extent
TileSteps == { << 0, 0, 0 >>, << 1, 0, 0 >>, << 0, 1, 0 >>, << 0, 0, 1 >>,
               << 0, 0, -1 >>, << 1, 0, -1 >> }
FarOrigin == << 0, 0, Pow2(30) >>

Origins(ld) ==
    { [c \in 1 .. 3 |-> s[c] * Extent(ld)] : s \in TileSteps } \cup { FarOrigin }

Insets == { 0, 1 }

\* sequences of n level-2 nodes with pairwise distinct origins
DistinctNodes(t, n, ld) ==
    { [i \in 1 .. n |-> Node2(o[i], d[i], ld, UnitValue(t), UnitValue(t))] :
        o \in { q \in [1 .. n -> Origins(ld)] : \A a, b \in 1 .. n : a # b => q[a] # q[b] },
        d \in [1 .. n -> Insets] }

\* sample values of each type (floats through the order-preserving map)
SampleValues(t) ==
    IF t = TFloat THEN { << -2 * FloatOne >>, << 0 >>, << FloatOne >> }
    ELSE IF t = TInt THEN { << -2 >>, << 0 >>, << 1 >> }
    ELSE { << FloatOne, -2 * FloatOne, 3 * FloatOne >>,
           << -FloatOne, -FloatOne, -FloatOne >>,
           << 0, 2 * FloatOne, -3 * FloatOne >> }

\* canonical origins, value ranges spanned by two sample values each
ValuedNodes(t, n, ld) ==
    { [i \in 1 .. n |->
          Node2(<< (i - 1) * Extent(ld), 0, 0 >>, 0, ld,
                ValueMin(a[i], b[i]), ValueMax(a[i], b[i]))] :
        a \in [1 .. n -> SampleValues(t)], b \in [1 .. n -> SampleValues(t)] }

\* what a call through a function pointer read outside rangeFunctions may
\* hand back
GarbageNodes(t, ld) ==
    { Node2(<< 0, 0, 0 >>, 0, ld, UnitValue(t), UnitValue(t)),
      Node2(<< -Extent(ld), 0, 0 >>, 1, ld, MaximumValue(t), MinimumValueLowest(t)) }

(***************************************************************************)
(* Grid name.  An array of bytes is described by the number of characters  *)
(* before its terminator, its size and the byte that fills it after the    *)
(* terminator; a byte past the end of the array is indeterminate.          *)
(***************************************************************************)
MaxNameSize == 256
Junk == 255
Indeterminate == -1

CharAt(i) == 97 + (i % 26)

ArrayByte(a, i) ==
    IF i > a.size THEN Indeterminate
    ELSE IF i <= a.len THEN CharAt(i)
    ELSE IF i = a.len + 1 THEN 0
    ELSE a.pad

\* memcpy(dst, src, n): dst holds the first n bytes found at src, whatever
\* the size of the array src points to
Memcpy(src, n) ==
    [ len  |-> Min2(src.len, n),
      size |-> Min2(src.size, n),
      pad  |-> src.pad ]

\* a field of MaxNameSize zero bytes
ZeroName == [len |-> 0, size |-> MaxNameSize, pad |-> 0]

\* a name in an array of MaxNameSize bytes, zero after the terminator
PaddedName == [len |-> 4, size |-> MaxNameSize, pad |-> 0]

\* the arrays a caller may pass: string literals (terminator only), arrays
\* of MaxNameSize bytes with zeroes or leftovers after the terminator, names
\* of MaxNameSize characters and more
GridNames ==
    { PaddedName,
      [len |-> 4, size |-> 5, pad |-> 0],
      [len |-> 0, size |-> 1, pad |-> 0],
      [len |-> 4, size |-> MaxNameSize, pad |-> Junk],
      [len |-> MaxNameSize, size |-> MaxNameSize + 1, pad |-> 0],
      [len |-> MaxNameSize + 44, size |-> MaxNameSize + 45, pad |-> 0] }

(***************************************************************************)
(* Kernels.  Kernel 1 fills the leaves, kernel 2 the level-1 nodes and     *)
(* kernel 3 the level-2 nodes; they are launched in this order.            *)
(***************************************************************************)
Kernels == 1 .. TREE_DEPTH

StreamOfOwn(k) == k

\* the hStream argument of the three cuLaunchKernel calls
StreamOf(k) == 0

(***************************************************************************)
(* State.                                                                  *)
(***************************************************************************)
VARIABLES
    NDEBUG,            \* build: assertions compiled out
    args,              \* backgroundPtr and outTotalSize: "valid" or "null"
    gvdb,              \* the source tree: type, ld, numNodes, node2
    fault,             \* the CUDA call that fails in this process, or "none"
    gridName,          \* the array the caller passes as gridName
    call,              \* number of the current call of ExportToNanoVDB
    heap,              \* new[] blocks of earlier calls that are still allocated
    cancel,            \* the caller's cancellation request
    statics,           \* exportModule and the cuFunc* handles
    accessed,          \* caller's objects this call has read or written
    writes,            \* byte ranges written so far: buffer, writer, [lo, hi)
    pc,                \* position of the host in ExportToNanoVDB
    typeSizes,         \* NanoVDBTypeSizes typeSizes
    dataSizes,         \* size_t dataSizes[R_COUNT]
    dataOffsetsBytes,  \* size_t dataOffsetsBytes[R_COUNT + 1]
    bufferGPU,         \* device allocation: state, byte count, header image
    bufferCPU,         \* host staging allocation: state and byte count
    launched,          \* kernels queued on the default stream (0 .. 3)
    gpuDone,           \* kernels the device has completed (0 .. 3)
    gpuNode2,          \* level-2 region of the device buffer
    kernel,            \* each kernel: "idle", "queued", "running" or "done"
    cpuNode2,          \* level-2 region of the staging buffer
    header,            \* grid and tree headers of the staging buffer
    rangeFunc,         \* the Node2RangeFunc picked by ProcessGridExtents
    tileIdx,           \* loop counter of ProcessGridExtents
    indexAABB,         \* running index-space bounding box
    valueMin,          \* running value minimum
    valueMax,          \* running value maximum
    root,              \* root header fields
    tiles,             \* root tile array
    warned,            \* the zero-volume warning was printed
    assertion,         \* the assert() that ended a debug build, or "none"
    result,            \* return value: "none", "NULL" or "buffer"
    outTotalSize,      \* *outTotalSize: written flag and value
    rpc,               \* position of the host in RenderNanoVDB
    width,             \* uint width
    height,            \* uint height
    imageSize,         \* size_t imageSize
    deviceImage,       \* device allocation of the image: state and byte count
    gridX,             \* grid size of the render launch, x
    gridY,             \* grid size of the render launch, y
    outImage           \* bytes copied to the caller's outImage

vars == << NDEBUG, args, gvdb, fault, gridName, call, heap, cancel, statics,
           accessed, writes, pc, typeSizes, dataSizes, dataOffsetsBytes,
           bufferGPU, bufferCPU, launched, gpuDone, gpuNode2, kernel, cpuNode2,
           header, rangeFunc, tileIdx, indexAABB, valueMin, valueMax, root,
           tiles, warned, assertion, result, outTotalSize,
           rpc, width, height, imageSize, deviceImage, gridX, gridY, outImage >>

inputs == << NDEBUG, args, gvdb, fault, gridName >>
session == << call, heap, cancel >>
layout == << typeSizes, dataSizes, dataOffsetsBytes >>
buffers == << bufferGPU, bufferCPU >>
device == << launched, gpuDone, gpuNode2, kernel >>
extents == << rangeFunc, tileIdx, indexAABB, valueMin, valueMax, root, tiles, warned >>
rendering == << rpc, width, height, imageSize, deviceImage, gridX, gridY, outImage >>

brickLog2Dim == gvdb.ld[1]
node1Log2Dim == gvdb.ld[2]
node2Log2Dim == gvdb.ld[3]
numNode2s == gvdb.numNodes[2]
numNode1s == gvdb.numNodes[1]
numLeaves == gvdb.numNodes[0]

Tree(t, ld, n1, nl, node2) ==
    [ type |-> t, ld |-> ld,
      numNodes |-> [lev \in 0 .. 2 |-> IF lev = 2 THEN Len(node2) ELSE IF lev = 1 THEN n1 ELSE nl],
      node2 |-> node2 ]

NoSizes == [ grid |-> 0, tree |-> 0, root |-> 0, rootTile |-> 0, node2 |-> 0, node1 |-> 0, leaf |-> 0 ]
NoRoot == [ mActiveVoxelCount |-> 0, mTileCount |-> 0, mBBox |-> EmptyBBox,
            mMinimum |-> << >>, mMaximum |-> << >> ]
NoHeader == [ grid |-> FALSE, tree |-> FALSE, mGridName |-> ZeroName,
              mBytes |-> [lev \in 0 .. TREE_DEPTH |-> 0],
              mCount |-> [lev \in 0 .. TREE_DEPTH |-> 0] ]
NoCancel == [raised |-> FALSE, at |-> "none", launched |-> 0]

\* static CUmodule exportModule, static CUfunction cuFunc*: (-1) before the
\* first load
NoStatics == [ exportModule |-> "unset", cuFuncRender |-> "unset",
               cuFuncProcessLeaves |-> "unset",
               cuFuncProcessInternalNodes |-> "unset" ]

\* state at the entry of ExportToNanoVDB
Entry ==
    /\ pc = "start"
    /\ cancel = NoCancel
    /\ accessed = { }
    /\ writes = { }
    /\ typeSizes = NoSizes
    /\ dataSizes = << >>
    /\ dataOffsetsBytes = << >>
    /\ bufferGPU = [state |-> "none", bytes |-> 0, image |-> "none"]
    /\ bufferCPU = [state |-> "none", bytes |-> 0]
    /\ launched = 0
    /\ gpuDone = 0
    /\ gpuNode2 = << >>
    /\ kernel = [k \in Kernels |-> "idle"]
    /\ cpuNode2 = << >>
    /\ header = NoHeader
    /\ rangeFunc = "unset"
    /\ tileIdx = 0
    /\ indexAABB = EmptyBBox
    /\ valueMin = << >>
    /\ valueMax = << >>
    /\ root = NoRoot
    /\ tiles = << >>
    /\ warned = FALSE
    /\ assertion = "none"
    /\ result = "none"
    /\ outTotalSize = [written |-> FALSE, value |-> 0]

\* state of the locals of RenderNanoVDB at its entry
RenderEntry ==
    /\ imageSize = 0
    /\ deviceImage = [state |-> "none", bytes |-> 0]
    /\ gridX = 0
    /\ gridY = 0
    /\ outImage = 0

\* RenderNanoVDB is not called
NotRendering ==
    /\ rpc = "idle"
    /\ width = 0
    /\ height = 0
    /\ RenderEntry

\* a process that has not called ExportToNanoVDB yet
FirstCall ==
    /\ call = 1
    /\ heap = 0
    /\ statics = NoStatics
    /\ Entry
    /\ NotRendering

ValidArgs == [backgroundPtr |-> "valid", outTotalSize |-> "valid"]

ArgSets == [backgroundPtr : {"valid", "null"}, outTotalSize : {"valid", "null"}]

Faults == { "none", "cuMemcpyHtoD" }

\* node counts of a level: none, one, many
Counts == { 0, 1, MaxCount }

\* every value type, log2dim triple and node-count triple; canonical content
InitLayout ==
    /\ NDEBUG \in BOOLEAN
    /\ args = ValidArgs
    /\ fault = "none"
    /\ gridName = PaddedName
    /\ \E t \in SupportedTypes \cup { TUnsupported },
          l0 \in 0 .. MaxLog2Dim,
          l1 \in 0 .. MaxLog2Dim,
          l2 \in 0 .. MaxLog2Dim,
          n2 \in Counts, n1 \in Counts, nl \in Counts :
            gvdb = Tree(t, << l0, l1, l2 >>, n1, nl, CanonicalNodes(t, n2, << l0, l1, l2 >>))
    /\ FirstCall

\* level-2 nodes at pairwise distinct origins, one level-1 node and one
\* brick below each
InitTree ==
    /\ NDEBUG \in BOOLEAN
    /\ args = ValidArgs
    /\ fault = "none"
    /\ gridName = PaddedName
    /\ \E t \in SupportedTypes, ld \in TreeLog2Dims, n \in 0 .. MaxNode2 :
         \E node2 \in DistinctNodes(t, n, ld) :
            gvdb = Tree(t, ld, n, n, node2)
    /\ FirstCall

\* level-2 nodes with varied value ranges
InitValues ==
    /\ NDEBUG \in BOOLEAN
    /\ args = ValidArgs
    /\ fault = "none"
    /\ gridName = PaddedName
    /\ \E t \in SupportedTypes, ld \in TreeLog2Dims, n \in 0 .. MaxNode2 :
         \E node2 \in ValuedNodes(t, n, ld) :
            gvdb = Tree(t, ld, n, n, node2)
    /\ FirstCall

\* every combination of arguments, grid-name array and failing CUDA call, on
\* trees with canonical content
InitCalls ==
    /\ NDEBUG \in BOOLEAN
    /\ args \in ArgSets
    /\ fault \in Faults
    /\ gridName \in GridNames
    /\ \E t \in SupportedTypes, ld \in TreeLog2Dims, n \in 0 .. MaxNode2 :
            gvdb = Tree(t, ld, n, n, CanonicalNodes(t, n, ld))
    /\ FirstCall

(***************************************************************************)
(* ExportToNanoVDB, host side.                                             *)
(***************************************************************************)
ReturnNull ==
    /\ result' = "NULL"
    /\ pc' = "done"

ArgsNullFirst(a) == a.backgroundPtr = "null"

\* the two null checks of lines 378-385
ArgsNull(a) == a.backgroundPtr = "null" \/ a.outTotalSize = "null"

\* lines 378-385 and 422: null checks, then the background is read
ValidateArgs ==
    /\ pc = "start"
    /\ IF ArgsNull(args)
       THEN ReturnNull /\ accessed' = accessed
       ELSE pc' = "params" /\ result' = result /\ accessed' = accessed \cup { "backgroundPtr" }
    /\ UNCHANGED << inputs, rendering, session, statics, writes, layout, buffers, device, cpuNode2, header,
                    extents, assertion, outTotalSize >>

Log2DimLegalWide(ld) == ~(ld < 1 \/ ld > 9)

\* the range test applied to each of the three log2dims
Log2DimLegal(ld) == ~(ld < 1 \/ ld > 8)

\* lines 425-447: gvdb.getLD, then the range checks
CheckLog2Dims ==
    /\ pc = "params"
    /\ accessed' = accessed \cup { "gvdb" }
    /\ IF ~Log2DimLegal(brickLog2Dim) \/ ~Log2DimLegal(node1Log2Dim) \/ ~Log2DimLegal(node2Log2Dim)
       THEN ReturnNull
       ELSE pc' = "type" /\ result' = result
    /\ UNCHANGED << inputs, rendering, session, statics, writes, layout, buffers, device, cpuNode2, header,
                    extents, assertion, outTotalSize >>

TypeSupportedAny(t) == t = t

\* the switch of lines 449-459
TypeSupported(t) == t \in { TFloat, TFloat3, TInt }

CheckType ==
    /\ pc = "type"
    /\ IF ~TypeSupported(gvdb.type)
       THEN ReturnNull
       ELSE pc' = "counts" /\ result' = result
    /\ UNCHANGED << inputs, rendering, session, statics, accessed, writes, layout, buffers, device, cpuNode2,
                    header, extents, assertion, outTotalSize >>

\* ExportToNanoVDB_GetNumNodes: a count must fit an int
CountFits(n) == n <= IntMax

\* lines 474-483
GetNumNodes ==
    /\ pc = "counts"
    /\ IF \E lev \in 0 .. 2 : ~CountFits(gvdb.numNodes[lev])
       THEN ReturnNull
       ELSE pc' = "layout" /\ result' = result
    /\ UNCHANGED << inputs, rendering, session, statics, accessed, writes, layout, buffers, device, cpuNode2,
                    header, extents, assertion, outTotalSize >>

\* lines 485-502; the assertion of DataTypeSizeLookup ends a debug build
ComputeLayout ==
    /\ pc = "layout"
    /\ IF ~NDEBUG /\ (\E c \in 1 .. 3 : ~LookupInRange(gvdb.ld[c]))
       THEN /\ pc' = "aborted"
            /\ assertion' = "DataTypeSizeLookup"
            /\ UNCHANGED layout
       ELSE /\ assertion' = assertion
            /\ typeSizes' = ComputeTypeSizes(gvdb.type, brickLog2Dim, node1Log2Dim, node2Log2Dim)
            /\ dataSizes' = RegionSizes(typeSizes', numNode2s, numNode1s, numLeaves)
            /\ dataOffsetsBytes' = PrefixSum(dataSizes', R_COUNT)
            /\ pc' = "alloc"
    /\ UNCHANGED << inputs, rendering, session, statics, accessed, writes, buffers, device, cpuNode2, header,
                    extents, result, outTotalSize >>

\* indices into dataOffsetsBytes (regions are numbered from 1 here)
R_GRID == 1
R_TREE == 2
R_ROOT == 3
R_NODE2 == 4
R_NODE1 == 5
R_LEAF == 6
R_END == 7

\* a write of the bytes [lo, hi) of the device ("gpu") or staging ("cpu")
\* buffer
Write(buf, by, lo, hi) == [buf |-> buf, by |-> by, lo |-> lo, hi |-> hi]

\* lines 508-516: cuMemAlloc, cuMemsetD8Async, new uint8_t[], memset.  The
\* memset of the device buffer is the first operation of the default stream:
\* it precedes every kernel, and the host touches the device buffer only in
\* the two copies below.
Allocate ==
    /\ pc = "alloc"
    /\ bufferGPU' = [state |-> "allocated", bytes |-> dataOffsetsBytes[R_END], image |-> "zero"]
    /\ bufferCPU' = [state |-> "allocated", bytes |-> dataOffsetsBytes[R_NODE1]]
    /\ writes' = writes \cup { Write("gpu", "memset", 0, dataOffsetsBytes[R_END]),
                               Write("cpu", "memset", 0, dataOffsetsBytes[R_NODE2]) }
    /\ pc' = "leaves"
    /\ UNCHANGED << inputs, rendering, session, statics, accessed, layout, device, cpuNode2, header, extents,
                    assertion, result, outTotalSize >>

\* LoadFunction: the module and the function are loaded when the static
\* handle still holds (-1)
LoadFunction(s, function) ==
    [s EXCEPT !.exportModule = "loaded", ![function] = "loaded"]

\* lines 529-546: gvdbToNanoVDBProcessLeaves queued on the default stream
LaunchLeaves ==
    /\ pc = "leaves"
    /\ statics' = LoadFunction(statics, "cuFuncProcessLeaves")
    /\ launched' = launched + 1
    /\ kernel' = [kernel EXCEPT ![1] = "queued"]
    /\ pc' = "level1"
    /\ UNCHANGED << inputs, rendering, session, accessed, writes, layout, buffers, gpuDone, gpuNode2,
                    cpuNode2, header, extents, assertion, result, outTotalSize >>

\* lines 550-573: gvdbToNanoVDBProcessInternalNodes, level 1
LaunchLevel1 ==
    /\ pc = "level1"
    /\ statics' = LoadFunction(statics, "cuFuncProcessInternalNodes")
    /\ launched' = launched + 1
    /\ kernel' = [kernel EXCEPT ![2] = "queued"]
    /\ pc' = "level2"
    /\ UNCHANGED << inputs, rendering, session, accessed, writes, layout, buffers, gpuDone, gpuNode2,
                    cpuNode2, header, extents, assertion, result, outTotalSize >>

\* lines 578-594: gvdbToNanoVDBProcessInternalNodes, level 2
LaunchLevel2 ==
    /\ pc = "level2"
    /\ launched' = launched + 1
    /\ kernel' = [kernel EXCEPT ![3] = "queued"]
    /\ pc' = "grid"
    /\ UNCHANGED << inputs, rendering, session, statics, accessed, writes, layout, buffers, gpuDone,
                    gpuNode2, cpuNode2, header, extents, assertion, result, outTotalSize >>

\* lines 598-655.  memcpy reads MaxNameSize bytes at gridName: past the end
\* of a shorter array the read is undefined, it yields indeterminate bytes
\* or faults.
WriteGrid ==
    /\ pc = "grid"
    /\ accessed' = accessed \cup { "gridName" }
    /\ \/ /\ header' = [header EXCEPT !.grid = TRUE,
                                      !.mGridName = Memcpy(gridName, MaxNameSize)]
          /\ writes' = writes \cup { Write("cpu", "grid", dataOffsetsBytes[R_GRID],
                                           dataOffsetsBytes[R_GRID] + SizeofGridData) }
          /\ pc' = "tree"
       \/ /\ gridName.size < MaxNameSize
          /\ pc' = "crashed"
          /\ UNCHANGED << header, writes >>
    /\ UNCHANGED << inputs, rendering, session, statics, layout, buffers, device, cpuNode2, extents,
                    assertion, result, outTotalSize >>

\* region of the nodes of a level; level TREE_DEPTH is the root
RegionOfLevel(lev) ==
    IF lev = 0 THEN R_LEAF
    ELSE IF lev = 1 THEN R_NODE1
    ELSE IF lev = 2 THEN R_NODE2
    ELSE R_ROOT

TreeBytesAbsolute(offsets, lev) == offsets[RegionOfLevel(lev)]

\* treeData->mBytes[lev]
TreeBytes(offsets, lev) == offsets[RegionOfLevel(lev)] - offsets[R_TREE]

\* treeData->mCount[lev]
TreeCount(lev) == IF lev = TREE_DEPTH THEN 1 ELSE gvdb.numNodes[lev]

\* lines 659-674
WriteTree ==
    /\ pc = "tree"
    /\ header' = [header EXCEPT !.tree = TRUE,
                                !.mBytes = [lev \in 0 .. TREE_DEPTH |-> TreeBytes(dataOffsetsBytes, lev)],
                                !.mCount = [lev \in 0 .. TREE_DEPTH |-> TreeCount(lev)]]
    /\ writes' = writes \cup { Write("cpu", "tree", dataOffsetsBytes[R_TREE],
                                     dataOffsetsBytes[R_TREE] + SizeofTreeData) }
    /\ pc' = "dtoh"
    /\ UNCHANGED << inputs, rendering, session, statics, accessed, layout, buffers, device, cpuNode2,
                    extents, assertion, result, outTotalSize >>

\* lines 678-681: cuMemcpyDtoH on the default stream waits for the kernels
CopyDtoH ==
    /\ pc = "dtoh"
    /\ gpuDone = launched
    /\ cpuNode2' = gpuNode2
    /\ writes' = writes \cup { Write("cpu", "dtoh", dataOffsetsBytes[R_NODE2],
                                     dataOffsetsBytes[R_NODE2] + dataSizes[R_NODE2]) }
    /\ pc' = "root"
    /\ UNCHANGED << inputs, rendering, session, statics, accessed, layout, buffers, device, header, extents,
                    assertion, result, outTotalSize >>

(***************************************************************************)
(* Device side.  A kernel of a stream starts when the kernels launched     *)
(* before it on the same stream are complete.                              *)
(***************************************************************************)
\* the region a kernel is handed as its output (cuLeafNodesStart,
\* cuLevel1Nodes, cuLevel2Nodes) and its node count
KernelRegion(k) == RegionOfLevel(k - 1)
KernelCount(k) == gvdb.numNodes[k - 1]
KernelName(k) == IF k = 1 THEN "leaves" ELSE IF k = 2 THEN "level1" ELSE "level2"

\* bytes between consecutive nodes a filler writes: the size of its node
\* type, which is the table entry; for a log2dim the tables do not hold the
\* filler writes nothing or nodes of the size the type would have
NodeStrides(k) ==
    LET ld == gvdb.ld[k]
        t == gvdb.type
    IN  IF LookupInRange(ld)
        THEN { IF k = 1 THEN typeSizes.leaf ELSE IF k = 2 THEN typeSizes.node1 ELSE typeSizes.node2 }
        ELSE { 0, IF k = 1 THEN SizeofLeafNode(t, ld) ELSE SizeofInternalNode(t, ld) }

StreamReady(k) ==
    \A j \in Kernels : (j < k /\ StreamOf(j) = StreamOf(k)) => kernel[j] = "done"

StartKernel ==
    /\ pc \notin { "aborted", "crashed", "done" }
    /\ \E k \in Kernels :
         /\ kernel[k] = "queued"
         /\ StreamReady(k)
         /\ kernel' = [kernel EXCEPT ![k] = "running"]
         /\ \E stride \in NodeStrides(k) :
              writes' = writes \cup
                  { Write("gpu", KernelName(k), dataOffsetsBytes[KernelRegion(k)],
                          dataOffsetsBytes[KernelRegion(k)] + KernelCount(k) * stride) }
    /\ UNCHANGED << inputs, rendering, session, statics, accessed, pc, layout, buffers, launched, gpuDone,
                    gpuNode2, cpuNode2, header, extents, assertion, result, outTotalSize >>

FinishKernel ==
    /\ pc \notin { "aborted", "crashed", "done" }
    /\ \E k \in Kernels :
         /\ kernel[k] = "running"
         /\ kernel' = [kernel EXCEPT ![k] = "done"]
         /\ gpuNode2' = IF k = TREE_DEPTH THEN gvdb.node2 ELSE gpuNode2
    /\ gpuDone' = gpuDone + 1
    /\ UNCHANGED << inputs, rendering, session, statics, accessed, writes, pc, layout, buffers, launched,
                    cpuNode2, header, extents, assertion, result, outTotalSize >>

(***************************************************************************)
(* ProcessGridExtents.                                                     *)
(***************************************************************************)
\* rangeFunctions[.][node2Log2Dim - 2]: the table has columns 0 .. 5
RangeFuncInTable(ld2) == (ld2 - 2) \in TableColumns

KeyWidthLoose(totalLog2Dim) == 32 - totalLog2Dim <= 23

\* assert(32 - totalLog2Dim <= 21)
KeyWidthOK(totalLog2Dim) == 32 - totalLog2Dim <= 21

\* first byte of rootData->tile(i) in the staging buffer
TileOffset(i) == dataOffsetsBytes[R_ROOT] + SizeofRootData(gvdb.type) + i * SizeofRootTile(gvdb.type)

\* lines 246-281, with the arguments computed at lines 693-694
BeginExtents ==
    /\ pc = "root"
    /\ indexAABB' = EmptyBBox
    /\ valueMin' = MaximumValue(gvdb.type)
    /\ valueMax' = MinimumValue(gvdb.type)
    /\ root' = [root EXCEPT !.mActiveVoxelCount = numLeaves * VoxCnt(brickLog2Dim),
                            !.mTileCount = numNode2s]
    /\ writes' = writes \cup { Write("cpu", "root", dataOffsetsBytes[R_ROOT], TileOffset(0)) }
    /\ rangeFunc' = IF RangeFuncInTable(node2Log2Dim) THEN "valid" ELSE "garbage"
    /\ tileIdx' = 0
    /\ IF ~NDEBUG /\ ~KeyWidthOK(TotalLog2Dim(gvdb.ld))
       THEN pc' = "aborted" /\ assertion' = "KeyWidth"
       ELSE pc' = "tiles" /\ assertion' = assertion
    /\ UNCHANGED << inputs, rendering, session, statics, accessed, layout, buffers, device, cpuNode2, header,
                    tiles, warned, result, outTotalSize >>

\* lines 285-311: one iteration of the tile loop.  A rangeFunc read outside
\* the table is an arbitrary pointer: the call may return anything or fault.
TileStep ==
    /\ pc = "tiles"
    /\ tileIdx < numNode2s
    /\ \/ \E rangeData \in (IF rangeFunc = "valid" THEN { cpuNode2[tileIdx + 1] }
                            ELSE GarbageNodes(gvdb.type, gvdb.ld)) :
            /\ tiles' = Append(tiles, [ key |-> TileKey(rangeData.aabb.min, TotalLog2Dim(gvdb.ld)),
                                        childID |-> tileIdx ])
            /\ writes' = writes \cup { Write("cpu", "root", TileOffset(tileIdx), TileOffset(tileIdx + 1)) }
            /\ indexAABB' = ExpandBBox(indexAABB, rangeData.aabb)
            /\ valueMin' = ValueMin(valueMin, rangeData.vmin)
            /\ valueMax' = ValueMax(valueMax, rangeData.vmax)
            /\ tileIdx' = tileIdx + 1
            /\ pc' = pc
       \/ /\ rangeFunc = "garbage"
          /\ pc' = "crashed"
          /\ UNCHANGED << tiles, writes, indexAABB, valueMin, valueMax, tileIdx >>
    /\ UNCHANGED << inputs, rendering, session, statics, accessed, layout, buffers, device, cpuNode2, header,
                    rangeFunc, root, warned, assertion, result, outTotalSize >>

\* the test that guards the warning of line 333
ZeroVolume(box) == box.min = box.max

\* lines 313-335: root extents, std::sort of the tiles, zero-volume warning
FinishExtents ==
    /\ pc = "tiles"
    /\ tileIdx >= numNode2s
    /\ root' = [root EXCEPT !.mBBox = indexAABB, !.mMinimum = valueMin, !.mMaximum = valueMax]
    /\ tiles' \in SortTiles(tiles)
    /\ warned' = ZeroVolume(indexAABB)
    /\ pc' = "htod"
    /\ UNCHANGED << inputs, rendering, session, statics, accessed, writes, layout, buffers, device, cpuNode2,
                    header, rangeFunc, tileIdx, indexAABB, valueMin, valueMax, assertion, result,
                    outTotalSize >>

\* line 714: cuMemcpyHtoD of grid, tree and root; its CUresult is dropped
CopyHtoD ==
    /\ pc = "htod"
    /\ IF fault = "cuMemcpyHtoD"
       THEN UNCHANGED << bufferGPU, writes >>
       ELSE /\ bufferGPU' = [bufferGPU EXCEPT !.image = "headers"]
            /\ writes' = writes \cup { Write("gpu", "htod", 0, dataOffsetsBytes[R_NODE2]) }
    /\ pc' = "return"
    /\ UNCHANGED << inputs, rendering, session, statics, accessed, layout, bufferCPU, device, cpuNode2,
                    header, extents, assertion, result, outTotalSize >>

\* lines 716-721; the store to *outTotalSize faults on a null pointer
ReturnBuffer ==
    /\ pc = "return"
    /\ accessed' = accessed \cup { "outTotalSize" }
    /\ IF args.outTotalSize = "null"
       THEN pc' = "crashed" /\ UNCHANGED << outTotalSize, result >>
       ELSE /\ outTotalSize' = [written |-> TRUE, value |-> dataOffsetsBytes[R_END]]
            /\ result' = "buffer"
            /\ pc' = "done"
    /\ UNCHANGED << inputs, rendering, session, statics, writes, layout, buffers, device, cpuNode2, header,
                    extents, assertion >>

(***************************************************************************)
(* The caller.                                                             *)
(***************************************************************************)
MaxCalls == 2

\* the caller asks for cancellation while a call is in progress
RaiseCancel ==
    /\ pc \notin { "done", "aborted", "crashed" }
    /\ ~cancel.raised
    /\ cancel' = [raised |-> TRUE, at |-> pc, launched |-> launched]
    /\ UNCHANGED << inputs, rendering, call, heap, statics, accessed, writes, pc, layout, buffers, device,
                    cpuNode2, header, extents, assertion, result, outTotalSize >>

\* the caller, holding the result of a call, calls ExportToNanoVDB again with
\* the same arguments: the locals of the new call are fresh, the statics and
\* the heap are those the earlier calls left
CallAgain ==
    /\ pc = "done"
    /\ call < MaxCalls
    /\ call' = call + 1
    /\ heap' = heap + (IF bufferCPU.state = "allocated" THEN 1 ELSE 0)
    /\ pc' = "start"
    /\ cancel' = NoCancel
    /\ accessed' = { }
    /\ writes' = { }
    /\ typeSizes' = NoSizes
    /\ dataSizes' = << >>
    /\ dataOffsetsBytes' = << >>
    /\ bufferGPU' = [state |-> "none", bytes |-> 0, image |-> "none"]
    /\ bufferCPU' = [state |-> "none", bytes |-> 0]
    /\ launched' = 0
    /\ gpuDone' = 0
    /\ gpuNode2' = << >>
    /\ kernel' = [k \in Kernels |-> "idle"]
    /\ cpuNode2' = << >>
    /\ header' = NoHeader
    /\ rangeFunc' = "unset"
    /\ tileIdx' = 0
    /\ indexAABB' = EmptyBBox
    /\ valueMin' = << >>
    /\ valueMax' = << >>
    /\ root' = NoRoot
    /\ tiles' = << >>
    /\ warned' = FALSE
    /\ assertion' = "none"
    /\ result' = "none"
    /\ outTotalSize' = [written |-> FALSE, value |-> 0]
    /\ UNCHANGED << inputs, statics, rendering >>

Next ==
    \/ ValidateArgs
    \/ CheckLog2Dims
    \/ CheckType
    \/ GetNumNodes
    \/ ComputeLayout
    \/ Allocate
    \/ LaunchLeaves
    \/ LaunchLevel1
    \/ LaunchLevel2
    \/ StartKernel
    \/ FinishKernel
    \/ WriteGrid
    \/ WriteTree
    \/ CopyDtoH
    \/ BeginExtents
    \/ TileStep
    \/ FinishExtents
    \/ CopyHtoD
    \/ ReturnBuffer

NextCalls ==
    \/ Next
    \/ RaiseCancel
    \/ CallAgain

(***************************************************************************)
(* RenderNanoVDB.                                                          *)
(***************************************************************************)
blockSize == 8

\* line 732: width * height * 4 * sizeof(char), in size_t
ImageSize(w, h) == w * h * 4

\* lines 740-741: (n + blockSize - 1) / blockSize
GridSize(n) == (n + blockSize - 1) \div blockSize

\* the threads of a launch of gx x gy blocks of blockSize x blockSize
\* threads: one for each (x, y) below the grid size times the block size
Workers(gx, gy) == (0 .. gx * blockSize - 1) \X (0 .. gy * blockSize - 1)

\* the pixels of an image
Pixels(w, h) == (0 .. w - 1) \X (0 .. h - 1)

Sides == 1 .. MaxSide

\* a process that calls RenderNanoVDB for an image of width x height
InitRender ==
    /\ NDEBUG \in BOOLEAN
    /\ args = ValidArgs
    /\ fault = "none"
    /\ gridName = PaddedName
    /\ gvdb = Tree(TFloat, << 3, 4, 5 >>, 0, 0, CanonicalNodes(TFloat, 0, << 3, 4, 5 >>))
    /\ call = 1
    /\ heap = 0
    /\ statics = NoStatics
    /\ Entry
    /\ rpc = "start"
    /\ width \in Sides
    /\ height \in Sides
    /\ RenderEntry

\* lines 727-736: the render function is loaded, the image is allocated
RenderAllocate ==
    /\ rpc = "start"
    /\ statics' = LoadFunction(statics, "cuFuncRender")
    /\ imageSize' = ImageSize(width, height)
    /\ deviceImage' = [state |-> "allocated", bytes |-> ImageSize(width, height)]
    /\ rpc' = "launch"
    /\ UNCHANGED << inputs, session, accessed, writes, pc, layout, buffers, device, cpuNode2,
                    header, extents, assertion, result, outTotalSize, width, height, gridX,
                    gridY, outImage >>

\* lines 738-767: the grid size is computed, the kernel is launched; both
\* grid sizes are computed from width
RenderLaunch ==
    /\ rpc = "launch"
    /\ gridX' = GridSize(width)
    /\ gridY' = GridSize(width)
    /\ rpc' = "copy"
    /\ UNCHANGED << inputs, session, statics, accessed, writes, pc, layout, buffers, device,
                    cpuNode2, header, extents, assertion, result, outTotalSize, width, height,
                    imageSize, deviceImage, outImage >>

\* lines 769-771: cuMemcpyDtoH(outImage, deviceImage, imageSize)
RenderCopyBack ==
    /\ rpc = "copy"
    /\ outImage' = imageSize
    /\ rpc' = "free"
    /\ UNCHANGED << inputs, session, statics, accessed, writes, pc, layout, buffers, device,
                    cpuNode2, header, extents, assertion, result, outTotalSize, width, height,
                    imageSize, deviceImage, gridX, gridY >>

\* lines 773-778: cuMemFree(deviceImage)
RenderFree ==
    /\ rpc = "free"
    /\ deviceImage' = [deviceImage EXCEPT !.state = "freed"]
    /\ rpc' = "done"
    /\ UNCHANGED << inputs, session, statics, accessed, writes, pc, layout, buffers, device,
                    cpuNode2, header, extents, assertion, result, outTotalSize, width, height,
                    imageSize, gridX, gridY, outImage >>

NextRender ==
    \/ RenderAllocate
    \/ RenderLaunch
    \/ RenderCopyBack
    \/ RenderFree

SpecLayout == InitLayout /\ [][Next]_vars
SpecTree == InitTree /\ [][Next]_vars
SpecValues == InitValues /\ [][Next]_vars
SpecCalls == InitCalls /\ [][NextCalls]_vars
SpecRender == InitRender /\ [][NextRender]_vars
Spec == SpecTree

(***************************************************************************)
(* Properties.                                                             *)
(***************************************************************************)
LayoutComputed == Len(dataSizes) = R_COUNT

LegalLog2Dims == \A c \in 1 .. 3 : gvdb.ld[c] >= 1 /\ gvdb.ld[c] <= 8

Returned == pc = "done"

\* C1: once the layout is computed the six region sizes are
\* [grid, tree, root + rootTile * numNode2s, numNode2s * node2,
\* numNode1s * node1, numLeaves * leaf], the seven offsets start at 0 and
\* each is the previous one plus the previous size; the last offset is the
\* number of bytes allocated and the value stored in *outTotalSize on
\* success, and it equals the sum of the six sizes.
C1_LayoutOffsets ==
    LayoutComputed =>
        /\ dataSizes[1] = typeSizes.grid
        /\ dataSizes[2] = typeSizes.tree
        /\ dataSizes[3] = typeSizes.root + typeSizes.rootTile * numNode2s
        /\ dataSizes[4] = numNode2s * typeSizes.node2
        /\ dataSizes[5] = numNode1s * typeSizes.node1
        /\ dataSizes[6] = numLeaves * typeSizes.leaf
        /\ Len(dataOffsetsBytes) = R_COUNT + 1
        /\ dataOffsetsBytes[1] = 0
        /\ \A i \in 1 .. R_COUNT : dataOffsetsBytes[i + 1] = dataOffsetsBytes[i] + dataSizes[i]
        /\ dataOffsetsBytes[R_COUNT + 1] =
              dataSizes[1] + dataSizes[2] + dataSizes[3] + dataSizes[4] + dataSizes[5] + dataSizes[6]
        /\ bufferGPU.state = "allocated" => bufferGPU.bytes = dataOffsetsBytes[R_COUNT + 1]
        /\ result = "buffer" =>
              /\ outTotalSize.written
              /\ outTotalSize.value = dataOffsetsBytes[R_COUNT + 1]

C1_Witness ==
    /\ result = "buffer"
    /\ gvdb.type = TFloat3
    /\ gvdb.ld = << 3, 4, 5 >>
    /\ numNode2s = 1 /\ numNode1s = MaxCount /\ numLeaves = MaxCount
    /\ outTotalSize.value = bufferGPU.bytes
    /\ dataSizes[6] > 0

\* C6: when a log2dim is outside [1, 8] the call gets no further than the
\* range checks: it returns NULL, no buffer is allocated, no kernel is
\* launched and *outTotalSize is not written.
C6_Log2DimRejected ==
    ~LegalLog2Dims =>
        /\ pc \in { "start", "params", "done" }
        /\ Returned => result = "NULL"
        /\ bufferGPU.state = "none"
        /\ bufferCPU.state = "none"
        /\ launched = 0
        /\ ~outTotalSize.written

C6_Witness ==
    /\ Returned
    /\ result = "NULL"
    /\ gvdb.type \in SupportedTypes
    /\ gvdb.ld = << 3, 4, 9 >>
    /\ bufferGPU.state = "none"

\* C10: when the channel's value type is none of float, Vec3f, int the call
\* returns NULL before the layout is computed: no buffer is allocated, no
\* kernel is launched and *outTotalSize is not written.
C10_TypeRejected ==
    gvdb.type \notin SupportedTypes =>
        /\ pc \in { "start", "params", "type", "done" }
        /\ Returned => result = "NULL"
        /\ ~LayoutComputed
        /\ bufferGPU.state = "none"
        /\ bufferCPU.state = "none"
        /\ launched = 0
        /\ ~outTotalSize.written

C10_Witness ==
    /\ Returned
    /\ result = "NULL"
    /\ gvdb.type = TUnsupported
    /\ LegalLog2Dims
    /\ bufferGPU.state = "none"

T == TotalLog2Dim(gvdb.ld)

Node2Of(tile) == gvdb.node2[tile.childID + 1]

\* the tables of sizes and of range functions cover the log2dims of the
\* tree, and the keys are wide enough for its coordinates
InTable == \A c \in 1 .. 3 : LookupInRange(gvdb.ld[c])

\* C2: after a successful export of a tree whose level-2 nodes have
\* pairwise distinct origins (multiples of 2^T, negative ones included) the
\* keys of the root tiles are strictly ascending.  Stated for the trees
\* whose log2dims are in the tables and whose keys fit (32 - T <= 21).
C2_KeysStrictlyAscending ==
    (result = "buffer" /\ InTable /\ KeyWidthOK(T)) =>
        \A a, b \in DOMAIN tiles : a < b => U64Less(tiles[a].key, tiles[b].key)

\* C3: every emitted root tile carries the key of the origin of the level-2
\* node its child identifier indexes, and the child identifiers are a
\* permutation of 0 .. numNode2s - 1.
C3_KeyFormula ==
    result = "buffer" =>
        /\ Len(tiles) = numNode2s
        /\ { tiles[i].childID : i \in DOMAIN tiles } = 0 .. (numNode2s - 1)
        /\ \A i \in DOMAIN tiles : tiles[i].key = TileKey(Node2Of(tiles[i]).origin, T)

\* C4: after a successful export the root's index-space bounding box is the
\* union of the bounding boxes of the level-2 nodes: it contains each of
\* them, each of its bounds is reached by some node, and it is the empty box
\* when there is no node.
C4_BBoxIsUnion ==
    result = "buffer" =>
        /\ \A n \in DOMAIN gvdb.node2 : \A c \in 1 .. 3 :
              /\ root.mBBox.min[c] <= gvdb.node2[n].aabb.min[c]
              /\ root.mBBox.max[c] >= gvdb.node2[n].aabb.max[c]
        /\ numNode2s > 0 => \A c \in 1 .. 3 :
              /\ \E n \in DOMAIN gvdb.node2 : root.mBBox.min[c] = gvdb.node2[n].aabb.min[c]
              /\ \E n \in DOMAIN gvdb.node2 : root.mBBox.max[c] = gvdb.node2[n].aabb.max[c]
        /\ numNode2s = 0 => root.mBBox = EmptyBBox

\* C5: for a tree with at least one level-2 node the root's value minimum is
\* the least of the nodes' value minima and its value maximum the greatest
\* of their value maxima, in every component and for values of any sign.
\* Stated for the trees whose log2dims are in the tables.
C5_ValueRange ==
    (result = "buffer" /\ numNode2s > 0 /\ InTable) =>
        \A c \in 1 .. Components(gvdb.type) :
            /\ \E n \in DOMAIN gvdb.node2 : root.mMinimum[c] = gvdb.node2[n].vmin[c]
            /\ \A n \in DOMAIN gvdb.node2 : root.mMinimum[c] <= gvdb.node2[n].vmin[c]
            /\ \E n \in DOMAIN gvdb.node2 : root.mMaximum[c] = gvdb.node2[n].vmax[c]
            /\ \A n \in DOMAIN gvdb.node2 : root.mMaximum[c] >= gvdb.node2[n].vmax[c]

\* C7: for a supported value type and log2dims in [1, 8] the size lookups
\* stay inside the tables (the range assertion of DataTypeSizeLookup does not
\* fire), the leaf, level-1 and level-2 node sizes are positive, and the
\* range function of the level-2 log2dim is read inside rangeFunctions.
C7_LegalLog2DimsInTable ==
    (LegalLog2Dims /\ gvdb.type \in SupportedTypes) =>
        /\ assertion # "DataTypeSizeLookup"
        /\ LayoutComputed =>
              /\ typeSizes.leaf > 0
              /\ typeSizes.node1 > 0
              /\ typeSizes.node2 > 0
        /\ rangeFunc # "garbage"

\* C8: when 32 - T > 21 the export fails: no buffer is returned and the
\* call ends with the error result.
C8_KeyOverflowFails ==
    32 - T > 21 =>
        /\ result # "buffer"
        /\ Returned => result = "NULL"

\* scenario S1: F32, log2dims (3, 3, 3), one level-2 node at the origin,
\* one level-1 node, one brick
IsS1 ==
    /\ gvdb.type = TFloat
    /\ gvdb.ld = << 3, 3, 3 >>
    /\ numNode2s = 1 /\ numNode1s = 1 /\ numLeaves = 1
    /\ gvdb.node2[1].origin = << 0, 0, 0 >>

S1Result ==
    /\ result = "buffer"
    /\ root.mActiveVoxelCount = 512
    /\ root.mTileCount = 1
    /\ tiles = << [key |-> << 0, 0, 0 >>, childID |-> 0] >>

KeyFormulaInTable == InTable => C3_KeyFormula

BBoxIsUnionInTable == InTable => C4_BBoxIsUnion

(***************************************************************************)
(* Arguments, failures, the caller.                                        *)
(***************************************************************************)
\* C11: when backgroundPtr or outTotalSize is null the call returns
\* GVDB_EXPORT_NANOVDB_NULL from its first statements: it reads neither
\* pointer, does not query the source tree or read the grid name, allocates
\* no buffer, launches no kernel and does not write *outTotalSize.
C11_NullArgsRejected ==
    (args.backgroundPtr = "null" \/ args.outTotalSize = "null") =>
        /\ pc \in { "start", "done" }
        /\ Returned => result = "NULL"
        /\ accessed = { }
        /\ bufferGPU.state = "none"
        /\ bufferCPU.state = "none"
        /\ launched = 0
        /\ writes = { }
        /\ ~outTotalSize.written

C11_Witness ==
    /\ Returned
    /\ result = "NULL"
    /\ args.backgroundPtr = "valid"
    /\ args.outTotalSize = "null"
    /\ accessed = { }
    /\ bufferGPU.state = "none"

\* the export has got past the final copy, which failed
HtoDFailed ==
    /\ fault = "cuMemcpyHtoD"
    /\ bufferGPU.state # "none"
    /\ pc \in { "return", "done" }

\* C12: when a step after the allocation of the output buffer has failed
\* (here the final host-to-device copy of the headers) the call ends with
\* the buffer freed and the error result, and *outTotalSize unwritten: no
\* buffer whose headers were never written is handed to the caller.
C12_FailureFreesBuffer ==
    (HtoDFailed /\ Returned) =>
        /\ bufferGPU.state = "freed"
        /\ result = "NULL"
        /\ ~outTotalSize.written

EmptyTree == numNode2s = 0 /\ numNode1s = 0 /\ numLeaves = 0

\* C13: a successful export of an empty tree reports a total size of grid +
\* tree + root header bytes, tile count 0 and 0 active voxels, leaves the
\* root's index-space bounding box empty and prints the empty-bounding-box
\* warning.
C13_EmptyTreeExport ==
    (EmptyTree /\ result = "buffer") =>
        /\ outTotalSize.value = typeSizes.grid + typeSizes.tree + typeSizes.root
        /\ bufferGPU.bytes = outTotalSize.value
        /\ root.mTileCount = 0
        /\ root.mActiveVoxelCount = 0
        /\ tiles = << >>
        /\ root.mBBox = EmptyBBox
        /\ warned

\* C14: the level-1 kernel runs only when the leaf kernel is complete, the
\* level-2 kernel only when the level-1 kernel is complete, and the host is
\* past the copy of the level-2 nodes (in ProcessGridExtents or later) only
\* when the three kernels are complete.
C14_LevelOrder ==
    /\ kernel[2] \in { "running", "done" } => kernel[1] = "done"
    /\ kernel[3] \in { "running", "done" } => kernel[2] = "done"
    /\ pc \in { "root", "tiles", "htod", "return" } => \A k \in Kernels : kernel[k] = "done"
    /\ rangeFunc # "unset" => \A k \in Kernels : kernel[k] = "done"

C14_Witness ==
    /\ pc = "tiles"
    /\ tileIdx = 1
    /\ numNode2s = 2
    /\ \A k \in Kernels : kernel[k] = "done"
    /\ cpuNode2 = gvdb.node2

FillerNames == { "leaves", "level1", "level2" }

WriterRegion(by) == IF by = "leaves" THEN R_LEAF ELSE IF by = "level1" THEN R_NODE1 ELSE R_NODE2

Disjoint(a, b) == a.hi <= b.lo \/ b.hi <= a.lo \/ a.lo = a.hi \/ b.lo = b.hi

\* C15: every range a filler writes lies in the device buffer inside the
\* region of its level, the host's header, root and copy-back writes go to
\* the staging buffer, the final write-back covers exactly the bytes
\* [0, dataOffsetsBytes[R_NODE2]) of the device buffer, and the ranges that
\* different writers write in the device buffer after its zeroing are
\* disjoint.
C15_DisjointWrites ==
    /\ \A w \in writes : w.by \in FillerNames =>
          /\ w.buf = "gpu"
          /\ dataOffsetsBytes[WriterRegion(w.by)] <= w.lo
          /\ w.hi <= dataOffsetsBytes[WriterRegion(w.by) + 1]
    /\ \A w \in writes : w.by \in { "grid", "tree", "root", "dtoh" } => w.buf = "cpu"
    /\ \A w \in writes : w.by = "htod" =>
          /\ w.buf = "gpu"
          /\ w.lo = 0
          /\ w.hi = dataOffsetsBytes[R_NODE2]
    /\ \A a, b \in writes :
          (a.buf = "gpu" /\ b.buf = "gpu" /\ a.by # b.by /\ a.by # "memset" /\ b.by # "memset")
              => Disjoint(a, b)

\* C16: the image a successful export returns is determined by its input:
\* no byte of the grid-name field comes from outside the caller's array, and
\* the root and its tiles are computed from the level-2 nodes of the tree.
C16_ImageFromInput ==
    result = "buffer" =>
        /\ \A i \in 1 .. MaxNameSize : ArrayByte(header.mGridName, i) # Indeterminate
        /\ rangeFunc = "valid"

\* C17: once the tree header is written, the start of the tree header plus
\* mBytes[L] is the start of the region of level L (0 = leaves, 1, 2,
\* 3 = root), mBytes[3] is the size of the tree header, and mCount holds the
\* node counts of the levels, 1 for the root.
C17_TreeHeader ==
    header.tree =>
        /\ dataOffsetsBytes[R_TREE] + header.mBytes[0] = dataOffsetsBytes[R_LEAF]
        /\ dataOffsetsBytes[R_TREE] + header.mBytes[1] = dataOffsetsBytes[R_NODE1]
        /\ dataOffsetsBytes[R_TREE] + header.mBytes[2] = dataOffsetsBytes[R_NODE2]
        /\ dataOffsetsBytes[R_TREE] + header.mBytes[3] = dataOffsetsBytes[R_ROOT]
        /\ header.mBytes[3] = SizeofTreeData
        /\ header.mCount[0] = numLeaves
        /\ header.mCount[1] = numNode1s
        /\ header.mCount[2] = numNode2s
        /\ header.mCount[3] = 1

C17_Witness ==
    /\ header.tree
    /\ gvdb.type = TFloat3
    /\ gvdb.ld = << 3, 4, 5 >>
    /\ numNode2s = 1 /\ numNode1s = MaxCount /\ numLeaves = MaxCount
    /\ header.mBytes[0] > header.mBytes[1]
    /\ header.mBytes[1] > header.mBytes[2]
    /\ header.mBytes[2] > header.mBytes[3]
    /\ header.mCount[0] = MaxCount

\* byte i of the caller's name, padded with zeroes
NameByte(i) == IF i <= gridName.len THEN CharAt(i) ELSE 0

\* C18: once the grid header is written its name field holds the first
\* MaxNameSize bytes of the caller's name, and zero bytes after the name
\* when the name is shorter; a name of MaxNameSize characters or more does
\* not make the export fail.
C18_NameField ==
    /\ header.grid => \A i \in 1 .. MaxNameSize : ArrayByte(header.mGridName, i) = NameByte(i)
    /\ (gridName.len >= MaxNameSize /\ pc = "crashed") => header.grid

\* C19: when a call has returned, the staging buffer it allocated is
\* released and the static module and function handles are as they were
\* before the call; no block of an earlier call is still allocated.
C19_NothingRetained ==
    /\ Returned => (bufferCPU.state # "allocated" /\ statics = NoStatics)
    /\ heap = 0

\* C20: when the caller has asked for cancellation before the final wait,
\* at most the launch in progress is still dispatched, and the call does not
\* return a buffer: it ends with an error and the buffer freed.
C20_CancelObserved ==
    (cancel.raised /\ cancel.at \in { "leaves", "level1", "level2", "grid", "tree", "dtoh" }) =>
        /\ launched <= cancel.launched + 1
        /\ Returned => (result # "buffer" /\ bufferGPU.state # "allocated")

(***************************************************************************)
(* Supporting fact: the failure of C15 comes only from the log2dims 1 and  *)
(* 8, whose node sizes the layout takes to be 0.                           *)
(***************************************************************************)
DisjointWritesInTable == InTable => C15_DisjointWrites

(***************************************************************************)
(* RenderNanoVDB.                                                          *)
(***************************************************************************)
RenderLaunched == rpc \in { "copy", "free", "done" }

\* the image buffer allocated, copied back and freed is width * height * 4
\* bytes
ImageBytesExact ==
    /\ (rpc # "start") => (imageSize = width * height * 4 /\ deviceImage.bytes = width * height * 4)
    /\ (rpc \in { "free", "done" }) => outImage = width * height * 4
    /\ (rpc = "done") => deviceImage.state = "freed"

\* C21: once RenderNanoVDB has launched the kernel, the grid of 8x8 blocks
\* covers the image: gridX * 8 >= width and gridY * 8 >= height, and every
\* pixel (x, y) with x < width and y < height has a worker; the image buffer
\* allocated, copied back and freed is exactly width * height * 4 bytes.
C21_GridCoversImage ==
    /\ RenderLaunched =>
        /\ gridX * blockSize >= width
        /\ gridY * blockSize >= height
        /\ Pixels(width, height) \subseteq Workers(gridX, gridY)
    /\ ImageBytesExact

(***************************************************************************)
(* Supporting facts: the columns are always covered and the byte counts    *)
(* are exact; the rows are covered when height is at most width rounded up *)
(* to a multiple of the block size.                                        *)
(***************************************************************************)
ColumnsCoveredBytesExact ==
    /\ RenderLaunched => gridX * blockSize >= width
    /\ ImageBytesExact

RowsCoveredUpToWidth ==
    (RenderLaunched /\ height <= GridSize(width) * blockSize) =>
        Pixels(width, height) \subseteq Workers(gridX, gridY)

RowsUncovered ==
    (RenderLaunched /\ height > GridSize(width) * blockSize) =>
        ~(Pixels(width, height) \subseteq Workers(gridX, gridY))

====
